---------------------------- MODULE Spec2Model ----------------------------
(***************************************************************************)
(* Model of diffr's command-line configuration parser (src/cli_args.rs).   *)
(*                                                                         *)
(* Text.  A Rust &str is modelled as a sequence of symbols.  A symbol is   *)
(* an indivisible run of characters written as a TLA+ string ("added",     *)
(* "bold", ...); the separators ":" and "|" are symbols of their own.      *)
(* Str("added") is the one-symbol text "added", <<>> is the empty string   *)
(* and <<"added", ":", "bold">> is the text "added:bold".  Two texts are   *)
(* equal iff they are equal as sequences, so matching is case-sensitive    *)
(* and on the whole string.                                                *)
(*                                                                         *)
(* Option<T> is modelled as a sequence of length at most one: None is <<>> *)
(* and Some(x) is <<x>>.                                                   *)
(***************************************************************************)
EXTENDS Integers, Sequences, FiniteSets, TLC

VARIABLES
    pc,          \* position of the process / of the function under study
    matches,     \* what get_matches() and atty report (the program's input)
    args,        \* arguments of the function under study
    before,      \* the Configuration as it was when the last parser was entered
    config,      \* the Configuration being assembled in place
    result,      \* Result<(), ArgParsingError> (or Result<T, String>) of the last call
    consumed,    \* number of --colors values taken from the iterator so far
    returned,    \* Option<AppConfig>: what parse_config's caller received
    exit_status, \* Option<i32>: status given to std::process::exit
    stderr       \* lines written by eprintln!

vars == <<pc, matches, args, before, config, result, consumed, returned,
          exit_status, stderr>>

-----------------------------------------------------------------------------
(* Bounds of the model *)

MaxTokens == 4

MaxOccurrences == 2

MaxLineNumberValues == 2

MaxInputLen == 2

-----------------------------------------------------------------------------
(* Generic helpers *)

Str(s) == <<s>>

None == <<>>

Some(x) == <<x>>

Ok(v) == [ok |-> TRUE, val |-> v]

Err(e) == [ok |-> FALSE, err |-> e]

Unit == "()"

\* the sequences over S of length at most n
SeqsUpTo(S, n) == UNION {[1..k -> S] : k \in 0..n}

\* Iterator::last
Last(s) == s[Len(s)]

\* [&str]::join(sep): the texts of `parts`, with `sep` between neighbours
RECURSIVE Join(_, _)
Join(parts, sep) ==
    IF Len(parts) = 0 THEN <<>>
    ELSE IF Len(parts) = 1 THEN parts[1]
    ELSE parts[1] \o <<sep>> \o Join(Tail(parts), sep)

\* a variant that drops empty pieces, so that the empty text has no piece
RECURSIVE Split_no_empty(_, _)
Split_no_empty(text, sep) ==
    IF text = <<>> THEN <<>>
    ELSE IF \A i \in 1..Len(text) : text[i] # sep THEN <<text>>
    ELSE LET i == CHOOSE k \in 1..Len(text) :
                      text[k] = sep /\ \A j \in 1..(k - 1) : text[j] # sep
         IN  (IF i = 1 THEN <<>> ELSE <<SubSeq(text, 1, i - 1)>>)
                 \o Split_no_empty(SubSeq(text, i + 1, Len(text)), sep)

\* str::split(sep): the maximal sep-free runs, in order; n separators give
\* n + 1 pieces, so the empty text splits into the single empty piece
RECURSIVE Split(_, _)
Split(text, sep) ==
    IF \A i \in 1..Len(text) : text[i] # sep THEN <<text>>
    ELSE LET i == CHOOSE k \in 1..Len(text) :
                      text[k] = sep /\ \A j \in 1..(k - 1) : text[j] # sep
         IN  <<SubSeq(text, 1, i - 1)>> \o Split(SubSeq(text, i + 1, Len(text)), sep)

-----------------------------------------------------------------------------
(* Data model *)

\* termcolor::ColorSpec::default(): no colors, every flag off
ColorSpecDefault ==
    [fg |-> None, bg |-> None, bold |-> FALSE, intense |-> FALSE,
     underline |-> FALSE, italic |-> FALSE]

\* EnumString for FaceName
FaceNameData ==
    << <<Str("added"), "Added">>,
       <<Str("refine-added"), "RefineAdded">>,
       <<Str("removed"), "Removed">>,
       <<Str("refine-removed"), "RefineRemoved">> >>

\* Display for FaceName
FaceName_fmt(face_name) ==
    CASE face_name = "Added" -> Str("added")
      [] face_name = "RefineAdded" -> Str("refine-added")
      [] face_name = "Removed" -> Str("removed")
      [] face_name = "RefineRemoved" -> Str("refine-removed")

\* a variant in which two faces share a slot
get_face_mut_shared(face_name) ==
    CASE face_name = "Added" -> "added_face"
      [] face_name = "RefineAdded" -> "added_face"
      [] face_name = "Removed" -> "removed_face"
      [] face_name = "RefineRemoved" -> "refine_removed_face"

\* FaceName::get_face_mut: the field of AppConfig the face's reference points to
get_face_mut(face_name) ==
    CASE face_name = "Added" -> "added_face"
      [] face_name = "RefineAdded" -> "refine_added_face"
      [] face_name = "Removed" -> "removed_face"
      [] face_name = "RefineRemoved" -> "refine_removed_face"

\* EnumString for LineNumberStyleOpt
LineNumberStyleOptData ==
    << <<Str("aligned"), "Aligned">>,
       <<Str("compact"), "Compact">> >>

Attr(tag, arg) == [tag |-> tag, arg |-> arg]

\* EnumString for AttributeName
AttributeNameData ==
    << <<Str("foreground"), Attr("Color", "Foreground")>>,
       <<Str("background"), Attr("Color", "Background")>>,
       <<Str("italic"), Attr("Italic", "true")>>,
       <<Str("noitalic"), Attr("Italic", "false")>>,
       <<Str("bold"), Attr("Bold", "true")>>,
       <<Str("nobold"), Attr("Bold", "false")>>,
       <<Str("intense"), Attr("Intense", "true")>>,
       <<Str("nointense"), Attr("Intense", "false")>>,
       <<Str("underline"), Attr("Underline", "true")>>,
       <<Str("nounderline"), Attr("Underline", "false")>>,
       <<Str("none"), Attr("Reset", "")>> >>

\* the bool carried by Italic / Bold / Intense / Underline
BoolArg(attribute_name) == attribute_name.arg = "true"


\* the colors termcolor's Color::from_str accepts (external library), as
\* (text, Color) pairs; every other text is a ParseColorError
ColorData ==
    << <<Str("red"), "Red">>,
       <<Str("blue"), "Blue">>,
       <<Str("255"), "Ansi256(255)">> >>

\* ArgParsingError: `msg` is the String / diagnostic carried, `face` the
\* FaceName carried (MissingValue only)
ArgParsingError(kind, msg, face) == [kind |-> kind, msg |-> msg, face |-> face]

\* super::AppConfig::default(): debug and html off, no line-numbering style.
\* The four default faces are set outside this file: the model takes four
\* different records, one of them the ColorSpec default.
AppConfigDefault ==
    [debug |-> FALSE, html |-> FALSE, line_numbers_style |-> None,
     added_face |-> ColorSpecDefault,
     refine_added_face |-> [ColorSpecDefault EXCEPT !.fg = Some("White"),
                               !.bg = Some("Green"), !.bold = TRUE, !.italic = TRUE],
     removed_face |-> [ColorSpecDefault EXCEPT !.fg = Some("Red"), !.underline = TRUE],
     refine_removed_face |-> [ColorSpecDefault EXCEPT !.fg = Some("White"),
                                 !.bg = Some("Red"), !.bold = TRUE, !.intense = TRUE]]

-----------------------------------------------------------------------------
(* Token Resolver and the FromStr implementations *)

\* a variant that matches a name at the start of the input (starts_with)
Find_prefix(data, input) ==
    IF \E i \in 1..Len(data) : Len(input) >= 1 /\ data[i][1] = <<input[1]>>
    THEN CHOOSE i \in 1..Len(data) :
             data[i][1] = <<input[1]>> /\ \A j \in 1..(i - 1) : data[j][1] # <<input[1]>>
    ELSE 0

\* Iterator::find over a table: the index of the first pair whose name is
\* `input`, 0 when there is none
Find(data, input) ==
    IF \E i \in 1..Len(data) : data[i][1] = input
    THEN CHOOSE i \in 1..Len(data) :
             data[i][1] = input /\ \A j \in 1..(i - 1) : data[j][1] # input
    ELSE 0

\* T::data().iter().map(|p| p.0).collect::<Vec<_>>()
Names(data) == [i \in 1..Len(data) |-> data[i][1]]

\* format!("got '{}', expected {}", input, names.join("|"))
tryparse_message(data, input) ==
    Str("got '") \o input \o Str("', expected ") \o Join(Names(data), "|")

tryparse(data, input) ==
    LET i == Find(data, input)
    IN  IF i # 0 THEN Ok(data[i][2]) ELSE Err(tryparse_message(data, input))

\* tryparse(input).map_err(kind)
FromStr(data, kind, input) ==
    LET r == tryparse(data, input)
    IN  IF r.ok THEN r ELSE Err(ArgParsingError(kind, r.err, None))

FaceName_from_str(input) == FromStr(FaceNameData, "FaceName", input)

AttributeName_from_str(input) == FromStr(AttributeNameData, "AttributeName", input)

LineNumberStyleOpt_from_str(input) == FromStr(LineNumberStyleOptData, "LineNumberStyle", input)

\* termcolor's Color::from_str
Color_from_str(input) ==
    LET i == Find(ColorData, input)
    IN  IF i # 0 THEN Ok(ColorData[i][2])
        ELSE Err(Str("unrecognized color value '") \o input \o Str("'"))

\* ColorOpt::from_str: "none" is no color, anything else goes to termcolor
ColorOpt_from_str(input) ==
    IF input = Str("none") THEN Ok(None)
    ELSE LET r == Color_from_str(input)
         IN  IF r.ok THEN Ok(Some(r.val))
             ELSE Err(ArgParsingError("Color", r.err, None))

\* Display for ArgParsingError
ArgParsingError_fmt(err) ==
    CASE err.kind = "FaceName" -> Str("unexpected face name: ") \o err.msg
      [] err.kind = "AttributeName" -> Str("unexpected attribute name: ") \o err.msg
      [] err.kind = "Color" -> Str("unexpected color value: ") \o err.msg
      [] err.kind = "MissingValue" ->
             Str("error parsing color: missing color value for face '")
                 \o FaceName_fmt(err.face[1]) \o Str("'")
      [] err.kind = "LineNumberStyle" -> Str("unexpected line number style: ") \o err.msg

-----------------------------------------------------------------------------
(* The parsers.  Each returns the Configuration as the call leaves it       *)
(* (config is a &mut: what was written before an error stays written) and   *)
(* the Result.                                                              *)

Outcome(c, r) == [config |-> c, result |-> r]

\* a variant that takes the first value instead of the last
parse_line_number_style_first(c, values) ==
    IF Len(values) # 0
    THEN LET style == LineNumberStyleOpt_from_str(Head(values))
         IN  IF style.ok
             THEN Outcome([c EXCEPT !.line_numbers_style = Some(style.val)], Ok(Unit))
             ELSE Outcome(c, style)
    ELSE Outcome([c EXCEPT !.line_numbers_style = Some("Compact")], Ok(Unit))

parse_line_number_style(c, values) ==
    IF Len(values) # 0
    THEN LET style == LineNumberStyleOpt_from_str(Last(values))
         IN  IF style.ok
             THEN Outcome([c EXCEPT !.line_numbers_style = Some(style.val)], Ok(Unit))
             ELSE Outcome(c, style)
    ELSE Outcome([c EXCEPT !.line_numbers_style = Some("Compact")], Ok(Unit))

\* a variant that sets the foreground whatever the kind
set_color_fg_only(face, kind, color) == [face EXCEPT !.fg = color]

\* the Color(kind) arm: face.set_fg(color) / face.set_bg(color)
set_color(face, kind, color) ==
    CASE kind = "Foreground" -> [face EXCEPT !.fg = color]
      [] kind = "Background" -> [face EXCEPT !.bg = color]

\* a variant whose Reset arm clears the two colors and keeps the flags
apply_attribute_reset_colors(face, attribute_name) ==
    CASE attribute_name.tag = "Italic" -> [face EXCEPT !.italic = BoolArg(attribute_name)]
      [] attribute_name.tag = "Bold" -> [face EXCEPT !.bold = BoolArg(attribute_name)]
      [] attribute_name.tag = "Intense" -> [face EXCEPT !.intense = BoolArg(attribute_name)]
      [] attribute_name.tag = "Underline" ->
             [face EXCEPT !.underline = BoolArg(attribute_name)]
      [] attribute_name.tag = "Reset" -> [face EXCEPT !.fg = None, !.bg = None]

\* a variant whose Bold(false) arm flips the flag instead of clearing it
apply_attribute_toggle(face, attribute_name) ==
    CASE attribute_name.tag = "Italic" -> [face EXCEPT !.italic = BoolArg(attribute_name)]
      [] attribute_name.tag = "Bold" ->
             [face EXCEPT !.bold = IF BoolArg(attribute_name) THEN TRUE ELSE ~face.bold]
      [] attribute_name.tag = "Intense" -> [face EXCEPT !.intense = BoolArg(attribute_name)]
      [] attribute_name.tag = "Underline" ->
             [face EXCEPT !.underline = BoolArg(attribute_name)]
      [] attribute_name.tag = "Reset" -> ColorSpecDefault

\* the one-token arms: Italic, Bold, Intense, Underline, Reset
apply_attribute(face, attribute_name) ==
    CASE attribute_name.tag = "Italic" -> [face EXCEPT !.italic = BoolArg(attribute_name)]
      [] attribute_name.tag = "Bold" -> [face EXCEPT !.bold = BoolArg(attribute_name)]
      [] attribute_name.tag = "Intense" -> [face EXCEPT !.intense = BoolArg(attribute_name)]
      [] attribute_name.tag = "Underline" ->
             [face EXCEPT !.underline = BoolArg(attribute_name)]
      [] attribute_name.tag = "Reset" -> ColorSpecDefault

\* a variant that always reports the first face
missing_value_added(face_name) == Err(ArgParsingError("MissingValue", <<>>, Some("Added")))

\* line 248: a color attribute with no token after it
missing_value(face_name) == Err(ArgParsingError("MissingValue", <<>>, Some(face_name)))

\* the while loop over `values`, one iteration per unfolding
RECURSIVE parse_color_attributes(_, _, _)
parse_color_attributes(c, values, face_name) ==
    LET face == get_face_mut(face_name)
    IN  IF Len(values) = 0 THEN Outcome(c, Ok(Unit))
        ELSE LET attribute_name == AttributeName_from_str(Head(values))
                 rest == Tail(values)
             IN  IF ~attribute_name.ok THEN Outcome(c, attribute_name)
                 ELSE IF attribute_name.val.tag = "Color"
                 THEN IF Len(rest) # 0
                      THEN LET color == ColorOpt_from_str(Head(rest))
                           IN  IF ~color.ok THEN Outcome(c, color)
                               ELSE parse_color_attributes(
                                        [c EXCEPT ![face] =
                                            set_color(c[face], attribute_name.val.arg,
                                                      color.val)],
                                        Tail(rest), face_name)
                      ELSE Outcome(c, missing_value(face_name))
                 ELSE parse_color_attributes(
                          [c EXCEPT ![face] = apply_attribute(c[face], attribute_name.val)],
                          rest, face_name)

\* a variant in which a value replaces the face's record instead of adding to it
parse_color_arg_replacing(c, value) ==
    LET pieces == Split(value, ":")
    IN  IF Len(pieces) # 0
        THEN LET face_name == FaceName_from_str(Head(pieces))
             IN  IF face_name.ok
                 THEN parse_color_attributes(
                          [c EXCEPT ![get_face_mut(face_name.val)] = ColorSpecDefault],
                          Tail(pieces), face_name.val)
                 ELSE Outcome(c, face_name)
        ELSE Outcome(c, Ok(Unit))

\* a variant that drops the Result of parse_color_attributes
parse_color_arg_lenient(c, value) ==
    LET pieces == Split(value, ":")
    IN  IF Len(pieces) # 0
        THEN LET face_name == FaceName_from_str(Head(pieces))
             IN  IF face_name.ok
                 THEN Outcome(parse_color_attributes(c, Tail(pieces), face_name.val).config,
                              Ok(Unit))
                 ELSE Outcome(c, face_name)
        ELSE Outcome(c, Ok(Unit))

\* one iteration of the for loop: one --colors value
parse_color_arg(c, value) ==
    LET pieces == Split(value, ":")
    IN  IF Len(pieces) # 0
        THEN LET face_name == FaceName_from_str(Head(pieces))
             IN  IF face_name.ok
                 THEN parse_color_attributes(c, Tail(pieces), face_name.val)
                 ELSE Outcome(c, face_name)
        ELSE Outcome(c, Ok(Unit))

\* die: the message goes to stderr and the process exits with status -1
die(err_stream, err) ==
    [stderr |-> Append(err_stream, ArgParsingError_fmt(err)), exit_status |-> Some(-1)]

-----------------------------------------------------------------------------
(* parse_config as a process: the tty check and the construction of the     *)
(* Configuration, the line-numbering flag, one step per --colors value,     *)
(* and the return.  An error ends the process in die.                       *)

NoConfig == None

\* usage text of get_matches, printed when stdin is a terminal
Usage == Str("diffr reads from standard input and write to standard output.")

\* lines 361-369: the tty check, the default Configuration and the two toggles
CheckTtyAndBuild ==
    /\ pc = "start"
    /\ IF matches.tty
       THEN /\ stderr' = Append(stderr, Usage)
            /\ exit_status' = Some(-1)
            /\ pc' = "exited"
            /\ UNCHANGED config
       ELSE /\ config' = [AppConfigDefault EXCEPT !.debug = matches.debug,
                                                  !.html = matches.html]
            /\ pc' = "line_numbers"
            /\ UNCHANGED <<stderr, exit_status>>
    /\ UNCHANGED <<matches, args, before, result, consumed, returned>>

\* lines 370-376: --line-numbers, parsed only when the flag occurs
LineNumbers ==
    /\ pc = "line_numbers"
    /\ before' = config
    /\ IF matches.line_numbers_occurrences # 0
       THEN LET out == parse_line_number_style(config, matches.line_numbers_values)
                dead == die(stderr, out.result.err)
            IN  /\ config' = out.config
                /\ result' = out.result
                /\ IF out.result.ok
                   THEN pc' = "colors" /\ UNCHANGED <<stderr, exit_status>>
                   ELSE /\ pc' = "exited"
                        /\ stderr' = dead.stderr
                        /\ exit_status' = dead.exit_status
       ELSE /\ pc' = "colors"
            /\ UNCHANGED <<config, result, stderr, exit_status>>
    /\ UNCHANGED <<matches, args, consumed, returned>>

\* lines 268-274 and 378-382: the next --colors value of the for loop
ParseColorArgsIter ==
    /\ pc = "colors"
    /\ consumed < Len(matches.colors)
    /\ LET out == parse_color_arg(config, matches.colors[consumed + 1])
           dead == die(stderr, out.result.err)
       IN  /\ before' = config
           /\ config' = out.config
           /\ result' = out.result
           /\ consumed' = consumed + 1
           /\ IF out.result.ok
              THEN pc' = "colors" /\ UNCHANGED <<stderr, exit_status>>
              ELSE /\ pc' = "exited"
                   /\ stderr' = dead.stderr
                   /\ exit_status' = dead.exit_status
    /\ UNCHANGED <<matches, args, returned>>

\* line 383: every value parsed, the Configuration goes to the caller
Return ==
    /\ pc = "colors"
    /\ consumed = Len(matches.colors)
    /\ returned' = Some(config)
    /\ pc' = "returned"
    /\ UNCHANGED <<matches, args, before, config, result, consumed, exit_status, stderr>>

Next == CheckTtyAndBuild \/ LineNumbers \/ ParseColorArgsIter \/ Return

NoArgs == [face |-> <<>>, tokens |-> <<>>, value |-> <<>>]

\* the values a --line-numbers occurrence is given
LineNumberValues == {Str("aligned"), Str("compact"), Str("Aligned"), <<>>}

\* clap's view of --line-numbers: absent, the default_value "compact" is the
\* only value; present, the values supplied
LineNumbersMatches ==
    {[occurrences |-> 0, values |-> <<Str("compact")>>]} \cup
    UNION {{[occurrences |-> n, values |-> v] : v \in SeqsUpTo(LineNumberValues, n)} :
              n \in 1..MaxLineNumberValues}

\* --colors values given to whole runs of parse_config
ConfigColorArgs ==
    { <<"added", ":", "bold">>,
      <<"refine-removed", ":", "foreground", ":", "red">>,
      <<"removed", ":", "none">>,
      <<"removed", ":", "background">>,
      <<"refine-added", ":", "foreground", ":", "999">>,
      <<"added", ":", "blink">>,
      <<"deleted", ":", "bold">>,
      <<>> }

InitProcess(colorArgs, lineNumbers, flags) ==
    /\ pc = "start"
    /\ \E ln \in lineNumbers :
          matches \in [tty : flags, debug : flags, html : flags,
                       line_numbers_occurrences : {ln.occurrences},
                       line_numbers_values : {ln.values},
                       colors : SeqsUpTo(colorArgs, MaxOccurrences)]
    /\ args = NoArgs
    /\ before = NoConfig
    /\ config = NoConfig
    /\ result = None
    /\ consumed = 0
    /\ returned = None
    /\ exit_status = None
    /\ stderr = <<>>

Init == InitProcess(ConfigColorArgs, LineNumbersMatches, BOOLEAN)

Spec == Init /\ [][Next]_vars

-----------------------------------------------------------------------------
(* Runs of parse_config that vary the --colors values only                  *)

SampleFaces == {Str("added"), Str("refine-added"), Str("removed"), Str("refine-removed"),
                Str("Added")}

SampleAttributes ==
    { <<>>,
      <<Str("bold")>>,
      <<Str("nobold")>>,
      <<Str("foreground"), Str("red")>>,
      <<Str("none")>>,
      <<Str("italic"), Str("none"), Str("background"), Str("blue")>>,
      <<Str("foreground")>>,
      <<Str("bold"), <<>>>> }

\* face:attribute:..., and the empty value
SampleColorArgs ==
    {Join(<<f>> \o t, ":") : f \in SampleFaces, t \in SampleAttributes} \cup {<<>>}

InitColors ==
    InitProcess(SampleColorArgs, {[occurrences |-> 0, values |-> <<Str("compact")>>]},
                {FALSE})

SpecColors == InitColors /\ [][Next]_vars

-----------------------------------------------------------------------------
(* One --colors value: a face name and any tokens after it                  *)

\* the symbols of the tokens drawn after the face name: every attribute name
\* and a color (`none` is an attribute and a color; any other attribute name
\* is no color, and `red` is no attribute)
AttributeSymbols ==
    {AttributeNameData[i][1][1] : i \in 1..Len(AttributeNameData)} \cup {"red"}

SymbolSequences == SeqsUpTo(AttributeSymbols, MaxTokens)

\* the text made of the symbols with a colon between neighbours
ColonSeparated(symbols) ==
    [i \in 1..(2 * Len(symbols) - 1) |->
        IF i % 2 = 1 THEN symbols[(i + 1) \div 2] ELSE ":"]

\* the value face:symbol:symbol..., with its face name and its tokens
ValueArgs(face, symbols) ==
    [face |-> Str(face),
     tokens |-> [i \in 1..Len(symbols) |-> Str(symbols[i])],
     value |-> ColonSeparated(<<face>> \o symbols)]

InitValue ==
    /\ pc = "parse_color_arg"
    /\ matches = [tty |-> FALSE, debug |-> FALSE, html |-> FALSE,
                  line_numbers_occurrences |-> 0,
                  line_numbers_values |-> <<Str("compact")>>, colors |-> <<>>]
    /\ \E face \in {FaceNameData[i][1][1] : i \in 1..Len(FaceNameData)} :
          \E symbols \in SymbolSequences :
              args = ValueArgs(face, symbols)
    /\ before = AppConfigDefault
    /\ config = AppConfigDefault
    /\ result = None
    /\ consumed = 0
    /\ returned = None
    /\ exit_status = None
    /\ stderr = <<>>

\* the body of the for loop on args.value
CallParseColorArg ==
    /\ pc = "parse_color_arg"
    /\ LET out == parse_color_arg(config, args.value)
       IN  /\ config' = out.config
           /\ result' = out.result
    /\ pc' = "done"
    /\ UNCHANGED <<matches, args, before, consumed, returned, exit_status, stderr>>

NextValue == CallParseColorArg

SpecValue == InitValue /\ [][NextValue]_vars

-----------------------------------------------------------------------------
(* tryparse on its own: a table and an input                                *)

TryparseTables == {"FaceName", "AttributeName", "LineNumberStyleOpt"}

\* T::data() of the table named
DataOf(table) ==
    CASE table = "FaceName" -> FaceNameData
      [] table = "AttributeName" -> AttributeNameData
      [] table = "LineNumberStyleOpt" -> LineNumberStyleOptData

\* the symbols inputs are made of: every name of the three tables, and
\* symbols that are in none
TryparseSymbols ==
    UNION {{DataOf(t)[i][1][1] : i \in 1..Len(DataOf(t))} : t \in TryparseTables}
        \cup {"Added", "Italic", "x"}

InitTryparse ==
    /\ pc = "tryparse"
    /\ matches = [tty |-> FALSE, debug |-> FALSE, html |-> FALSE,
                  line_numbers_occurrences |-> 0,
                  line_numbers_values |-> <<Str("compact")>>, colors |-> <<>>]
    /\ args \in [table : TryparseTables, input : SeqsUpTo(TryparseSymbols, MaxInputLen)]
    /\ before = NoConfig
    /\ config = NoConfig
    /\ result = None
    /\ consumed = 0
    /\ returned = None
    /\ exit_status = None
    /\ stderr = <<>>

CallTryparse ==
    /\ pc = "tryparse"
    /\ result' = tryparse(DataOf(args.table), args.input)
    /\ pc' = "done"
    /\ UNCHANGED <<matches, args, before, config, consumed, returned, exit_status, stderr>>

NextTryparse == CallTryparse

SpecTryparse == InitTryparse /\ [][NextTryparse]_vars

-----------------------------------------------------------------------------
(* The grammar of the help text (lines 314-330), written directly: what a   *)
(* --colors value has to look like to be accepted.                          *)

GrammarFaces == {"added", "refine-added", "removed", "refine-removed"}

GrammarFlags == {"italic", "noitalic", "bold", "nobold", "intense", "nointense",
                 "underline", "nounderline"}

GrammarColors == {"none", "red", "blue", "255"}

GrammarColor(sym) ==
    CASE sym = "none" -> None
      [] sym = "red" -> Some("Red")
      [] sym = "blue" -> Some("Blue")
      [] sym = "255" -> Some("Ansi256(255)")

\* the field a flag sets, and the value it sets it to
FlagField(sym) ==
    CASE sym \in {"italic", "noitalic"} -> "italic"
      [] sym \in {"bold", "nobold"} -> "bold"
      [] sym \in {"intense", "nointense"} -> "intense"
      [] sym \in {"underline", "nounderline"} -> "underline"

FlagValue(sym) == sym \in {"italic", "bold", "intense", "underline"}

Setting(field, value) == [field |-> field, value |-> value]

Read(units, status) == [units |-> units, status |-> status]

\* The tokens read left to right as attribute, attribute, ...: a flag or
\* `none` is one token; `foreground` and `background` take the next token,
\* which must be a color.  `units` are the settings read until the tokens end
\* ("complete") or cannot be read further; a `none` read as an attribute is
\* the setting of the field "reset".
RECURSIVE Reading(_)
Reading(tokens) ==
    IF tokens = <<>> THEN Read(<<>>, "complete")
    ELSE IF Len(tokens[1]) # 1 THEN Read(<<>>, "bad_attribute")
    ELSE LET sym == tokens[1][1]
         IN  IF sym \in GrammarFlags
             THEN LET rest == Reading(Tail(tokens))
                  IN  Read(<<Setting(FlagField(sym), FlagValue(sym))>> \o rest.units,
                           rest.status)
             ELSE IF sym = "none"
             THEN LET rest == Reading(Tail(tokens))
                  IN  Read(<<Setting("reset", TRUE)>> \o rest.units, rest.status)
             ELSE IF sym \in {"foreground", "background"}
             THEN IF Len(tokens) = 1 THEN Read(<<>>, "missing_value")
                  ELSE IF Len(tokens[2]) = 1 /\ tokens[2][1] \in GrammarColors
                  THEN LET rest == Reading(Tail(Tail(tokens)))
                       IN  Read(<<Setting(IF sym = "foreground" THEN "fg" ELSE "bg",
                                          GrammarColor(tokens[2][1]))>> \o rest.units,
                                rest.status)
                  ELSE Read(<<>>, "bad_color")
             ELSE Read(<<>>, "bad_attribute")

GrammarAttributes(tokens) == Reading(tokens).status = "complete"

Resets(units) == {i \in 1..Len(units) : units[i].field = "reset"}

HasReset(units) == Resets(units) # {}

AfterLastReset(units) ==
    LET last == CHOOSE i \in Resets(units) : \A j \in Resets(units) : j <= i
    IN  SubSeq(units, last + 1, Len(units))

\* the value of `field` after the settings `units` (none of them a reset) on
\* a Style Record `base`: what the last setting of that field gave it,
\* and base's value when no setting names it
FieldAfter(base, units, field) ==
    LET named == {i \in 1..Len(units) : units[i].field = field}
    IN  IF named = {} THEN base[field]
        ELSE units[CHOOSE i \in named : \A j \in named : j <= i].value

StyleAfter(base, units) ==
    [fg |-> FieldAfter(base, units, "fg"), bg |-> FieldAfter(base, units, "bg"),
     bold |-> FieldAfter(base, units, "bold"),
     intense |-> FieldAfter(base, units, "intense"),
     underline |-> FieldAfter(base, units, "underline"),
     italic |-> FieldAfter(base, units, "italic")]

\* the Style Record with nothing set
DefaultStyle ==
    [fg |-> <<>>, bg |-> <<>>, bold |-> FALSE, intense |-> FALSE, underline |-> FALSE,
     italic |-> FALSE]

\* the slot of the Configuration and the variant a face name stands for
GrammarSlot(face) ==
    CASE face = <<"added">> -> "added_face"
      [] face = <<"refine-added">> -> "refine_added_face"
      [] face = <<"removed">> -> "removed_face"
      [] face = <<"refine-removed">> -> "refine_removed_face"

GrammarVariant(face) ==
    CASE face = <<"added">> -> "Added"
      [] face = <<"refine-added">> -> "RefineAdded"
      [] face = <<"removed">> -> "Removed"
      [] face = <<"refine-removed">> -> "RefineRemoved"

\* the colon-separated pieces of a text, by counting colons
Colons(text) == {i \in 1..Len(text) : text[i] = ":"}

PieceAt(text, k) ==
    LET starts == {0} \cup Colons(text)
        ends == Colons(text) \cup {Len(text) + 1}
        from == CHOOSE i \in starts : Cardinality({j \in starts : j < i}) = k - 1
        to == CHOOSE i \in ends : Cardinality({j \in ends : j < i}) = k - 1
    IN  [i \in 1..(to - from - 1) |-> text[from + i]]

Pieces(text) == [k \in 1..(Cardinality(Colons(text)) + 1) |-> PieceAt(text, k)]

\* face-name, then attributes (the parser also takes a face name alone)
GrammarColorSpec(text) ==
    LET pieces == Pieces(text)
    IN  /\ Len(pieces[1]) = 1
        /\ pieces[1][1] \in GrammarFaces
        /\ GrammarAttributes(Tail(pieces))

\* the style a --line-numbers value names, None for any other text
GrammarLineNumberStyle(text) ==
    IF text = <<"aligned">> THEN Some("Aligned")
    ELSE IF text = <<"compact">> THEN Some("Compact")
    ELSE None

-----------------------------------------------------------------------------
(* Claims about parse_config (specification Spec)                           *)

\* the --line-numbers values of this run are accepted
LineNumbersAccepted ==
    \/ matches.line_numbers_occurrences = 0
    \/ matches.line_numbers_values = <<>>
    \/ GrammarLineNumberStyle(Last(matches.line_numbers_values)) # None

\* the --colors values of this run that the grammar rejects, by position
RejectedColors == {i \in 1..Len(matches.colors) : ~GrammarColorSpec(matches.colors[i])}

FirstRejectedColor == CHOOSE i \in RejectedColors : \A j \in RejectedColors : i <= j

\* C6: parse_config hands a Configuration to its caller only when the
\* line-numbering values and every --colors value were accepted; otherwise the
\* process stops at the first error in processing order (line numbering, then
\* the --colors values in the order given): it has printed that error's
\* message, exits with a non-zero status, has taken no later --colors value,
\* and the caller has received nothing.
C6_ReturnsOnlyOnFullSuccess ==
    /\ returned # None =>
           /\ pc = "returned"
           /\ ~matches.tty
           /\ LineNumbersAccepted
           /\ RejectedColors = {}
           /\ exit_status = None
           /\ stderr = <<>>
           /\ consumed = Len(matches.colors)
    /\ (pc = "exited" /\ ~matches.tty) =>
           /\ returned = None
           /\ exit_status # None
           /\ exit_status[1] # 0
           /\ ~result.ok
           /\ stderr = <<ArgParsingError_fmt(result.err)>>
           /\ IF ~LineNumbersAccepted
              THEN consumed = 0 /\ result.err.kind = "LineNumberStyle"
              ELSE /\ RejectedColors # {}
                   /\ consumed = FirstRejectedColor
                   /\ result.err.kind \in {"FaceName", "AttributeName", "Color",
                                           "MissingValue"}
    /\ (pc \in {"colors", "returned"}) =>
           /\ LineNumbersAccepted
           /\ \A i \in 1..consumed : i \notin RejectedColors

\* C6 witness: two --colors values, the first rejected: the process has exited
\* after taking one value, with its message printed and nothing returned
C6_Witness ==
    /\ pc = "exited"
    /\ ~matches.tty
    /\ LineNumbersAccepted
    /\ Len(matches.colors) = 2
    /\ GrammarColorSpec(matches.colors[2])
    /\ consumed = 1
    /\ Len(stderr) = 1
    /\ returned = None

\* C7: the line-numbering style is unset when --line-numbers does not occur;
\* compact when it occurs with no value; otherwise what the last value alone
\* names, and when the last value names no style the parse returns a
\* line-numbering-style error and the style is as it was before the call.
C7_LineNumberStyle ==
    (pc \in {"colors", "returned", "exited"} /\ ~matches.tty) =>
        LET values == matches.line_numbers_values
        IN  IF matches.line_numbers_occurrences = 0
            THEN config.line_numbers_style = None
            ELSE IF values = <<>>
            THEN config.line_numbers_style = Some("Compact")
            ELSE IF GrammarLineNumberStyle(Last(values)) # None
            THEN config.line_numbers_style = GrammarLineNumberStyle(Last(values))
            ELSE /\ pc = "exited"
                 /\ ~result.ok
                 /\ result.err.kind = "LineNumberStyle"
                 /\ config.line_numbers_style = before.line_numbers_style
                 /\ config.line_numbers_style = None

\* C7 witness: two values, the first names no style and the last is `aligned`:
\* the Configuration was returned with the aligned style
C7_Witness ==
    /\ pc = "returned"
    /\ matches.line_numbers_occurrences = 2
    /\ matches.line_numbers_values = <<Str("Aligned"), Str("aligned")>>
    /\ config.line_numbers_style = Some("Aligned")

-----------------------------------------------------------------------------
(* Claims about one --colors value (specification SpecValue)                *)

\* C1: once `none` has been read as an attribute, the face's Style Record is
\* the default record with only the settings read after the last such `none`
\* applied, whatever the record was before the value; a value read to its end
\* is accepted.
C1_ResetClearsRecord ==
    pc = "done" =>
        LET read == Reading(args.tokens)
        IN  HasReset(read.units) =>
                /\ config[GrammarSlot(args.face)] =
                       StyleAfter(DefaultStyle, AfterLastReset(read.units))
                /\ read.status = "complete" => result.ok

\* C1 witness: refine-added starts with colors, bold and italic set; after
\* foreground:red:none:underline only underline is set
C1_Witness ==
    /\ pc = "done"
    /\ args.face = Str("refine-added")
    /\ args.tokens = <<Str("foreground"), Str("red"), Str("none"), Str("underline")>>
    /\ before.refine_added_face.bold
    /\ before.refine_added_face.bg # <<>>
    /\ result.ok
    /\ config.refine_added_face = [DefaultStyle EXCEPT !.underline = TRUE]

\* C2: when the tokens end right after a `foreground` or `background` read as
\* an attribute, the result is the missing-value error carrying the face the
\* value names, whose message names that face.
C2_MissingValueNamesFace ==
    pc = "done" =>
        (Reading(args.tokens).status = "missing_value" =>
            /\ ~result.ok
            /\ result.err.kind = "MissingValue"
            /\ result.err.face = <<GrammarVariant(args.face)>>
            /\ ArgParsingError_fmt(result.err) =
                   <<"error parsing color: missing color value for face '">>
                       \o args.face \o <<"'">>)

\* C2 witness: refine-removed:bold:background
C2_Witness ==
    /\ pc = "done"
    /\ args.face = Str("refine-removed")
    /\ args.tokens = <<Str("bold"), Str("background")>>
    /\ ~result.ok
    /\ result.err.face = <<"RefineRemoved">>

\* the slots the parser reaches from two different face names differ
FaceSlotsDiffer ==
    \A f, g \in GrammarFaces :
        f # g => get_face_mut(FaceName_from_str(Str(f)).val)
                     # get_face_mut(FaceName_from_str(Str(g)).val)

\* C3: a value made of a face name and attributes the grammar accepts is
\* accepted, and leaves every field of the Configuration but the named face's
\* Style Record as it was; the four face names stand for four different slots.
C3_OnlyNamedFaceChanges ==
    /\ FaceSlotsDiffer
    /\ pc = "done" =>
           (GrammarAttributes(args.tokens) =>
               /\ result.ok
               /\ \A field \in DOMAIN config \ {GrammarSlot(args.face)} :
                      config[field] = before[field])

\* C3 witness: refine-added:nobold:underline changed refine-added's record
C3_Witness ==
    /\ pc = "done"
    /\ args.face = Str("refine-added")
    /\ args.tokens = <<Str("nobold"), Str("underline")>>
    /\ result.ok
    /\ config.refine_added_face # before.refine_added_face
    /\ config.added_face = before.added_face

\* C8: with no `none` read as an attribute, every field of the face's Style
\* Record holds what the last setting of that field gave it, and what it held
\* before when no setting names it; a `none` right after `foreground` or
\* `background` is that color's value (no color).
C8_SettingsChangeOwnField ==
    pc = "done" =>
        LET read == Reading(args.tokens)
        IN  ~HasReset(read.units) =>
                /\ config[GrammarSlot(args.face)] =
                       StyleAfter(before[GrammarSlot(args.face)], read.units)
                /\ read.status = "complete" => result.ok

\* C8 witness: refine-added:foreground:none:background:red clears the
\* foreground, sets the background and keeps bold and italic
C8_Witness ==
    /\ pc = "done"
    /\ args.value = <<"refine-added", ":", "foreground", ":", "none", ":",
                      "background", ":", "red">>
    /\ before.refine_added_face.fg # <<>>
    /\ config.refine_added_face.fg = <<>>
    /\ config.refine_added_face.bg = <<"Red">>
    /\ config.refine_added_face.bold
    /\ config.refine_added_face.italic

-----------------------------------------------------------------------------
(* Claims about the --colors occurrences (specification SpecColors)         *)

\* the value just taken from the iterator
LastTaken == matches.colors[consumed]

\* C4 as stated: an empty --colors value is accepted, changes nothing, and the
\* values after it are still taken.
C4_EmptyValueIsNoOp ==
    (consumed >= 1 /\ LastTaken = <<>>) =>
        /\ result.ok
        /\ config = before
        /\ pc \in {"colors", "returned"}

\* C4 as the code has it: an empty --colors value is one empty piece, which is
\* no face name: the result is the face-name error for the empty text, the
\* Configuration is as it was, and the process exits without taking the
\* values after it.
C4_EmptyValueIsUnknownFace ==
    (consumed >= 1 /\ LastTaken = <<>>) =>
        /\ ~result.ok
        /\ result.err.kind = "FaceName"
        /\ result.err.msg = <<"got '", "', expected ", "added", "|", "refine-added", "|",
                              "removed", "|", "refine-removed">>
        /\ config = before
        /\ pc = "exited"
        /\ returned = None

\* C4 witness: the empty value came first of two, and the second was not taken
C4_Witness ==
    /\ consumed = 1
    /\ LastTaken = <<>>
    /\ Len(matches.colors) = 2
    /\ GrammarColorSpec(matches.colors[2])
    /\ pc = "exited"

\* the attribute tokens of the values among the first n that name `face`
RECURSIVE TokensFor(_, _)
TokensFor(face, n) ==
    IF n = 0 THEN <<>>
    ELSE LET pieces == Pieces(matches.colors[n])
         IN  TokensFor(face, n - 1) \o (IF pieces[1] = face THEN Tail(pieces) ELSE <<>>)

\* a Style Record after settings that may hold resets
StyleAfterAll(base, units) ==
    IF HasReset(units) THEN StyleAfter(DefaultStyle, AfterLastReset(units))
    ELSE StyleAfter(base, units)

\* C5: when every --colors value was accepted, each face's Style Record is
\* its initial record with the attributes of all the values naming that face
\* applied as one sequence, in the order given.
C5_OccurrencesAccumulate ==
    pc = "returned" =>
        \A f \in GrammarFaces :
            LET read == Reading(TokensFor(Str(f), Len(matches.colors)))
            IN  /\ read.status = "complete"
                /\ config[GrammarSlot(Str(f))] =
                       StyleAfterAll(AppConfigDefault[GrammarSlot(Str(f))], read.units)

\* C5 witness: refine-added:nobold then refine-added:foreground:red: the
\* second value kept what the first set
C5_Witness ==
    /\ pc = "returned"
    /\ matches.colors = << <<"refine-added", ":", "nobold">>,
                           <<"refine-added", ":", "foreground", ":", "red">> >>
    /\ ~config.refine_added_face.bold
    /\ config.refine_added_face.fg = <<"Red">>
    /\ config.refine_added_face.italic

\* C10: a --colors value that is accepted twice in a row leaves, the second
\* time, the Configuration as the first time left it.
C10_SameValueTwice ==
    (consumed >= 2 /\ LastTaken = matches.colors[consumed - 1]) =>
        (result.ok => config = before)

\* C10 witness: refine-added:nobold twice; the first changed the record
C10_Witness ==
    /\ consumed = 2
    /\ matches.colors = << <<"refine-added", ":", "nobold">>,
                           <<"refine-added", ":", "nobold">> >>
    /\ result.ok
    /\ config = before
    /\ config.refine_added_face # AppConfigDefault.refine_added_face

-----------------------------------------------------------------------------
(* Claim about tryparse (specification SpecTryparse)                        *)

\* the names of each table as the source lists them, `|` between them
GrammarNames(table) ==
    CASE table = "FaceName" ->
             <<"added", "|", "refine-added", "|", "removed", "|", "refine-removed">>
      [] table = "AttributeName" ->
             <<"foreground", "|", "background", "|", "italic", "|", "noitalic", "|",
               "bold", "|", "nobold", "|", "intense", "|", "nointense", "|",
               "underline", "|", "nounderline", "|", "none">>
      [] table = "LineNumberStyleOpt" -> <<"aligned", "|", "compact">>

\* the value each name stands for
GrammarValue(table, sym) ==
    CASE table = "FaceName" -> GrammarVariant(Str(sym))
      [] table = "LineNumberStyleOpt" -> GrammarLineNumberStyle(Str(sym))[1]
      [] table = "AttributeName" ->
             IF sym \in GrammarFlags
             THEN [tag |-> CASE FlagField(sym) = "italic" -> "Italic"
                             [] FlagField(sym) = "bold" -> "Bold"
                             [] FlagField(sym) = "intense" -> "Intense"
                             [] FlagField(sym) = "underline" -> "Underline",
                   arg |-> IF FlagValue(sym) THEN "true" ELSE "false"]
             ELSE IF sym = "foreground" THEN [tag |-> "Color", arg |-> "Foreground"]
             ELSE IF sym = "background" THEN [tag |-> "Color", arg |-> "Background"]
             ELSE [tag |-> "Reset", arg |-> ""]

\* C9: tryparse gives the value of the name that is the whole input, and for
\* an input that is no name of the table the message
\* got '<input>', expected <the table's names in order, `|` between them>.
C9_Tryparse ==
    pc = "done" =>
        LET names == {GrammarNames(args.table)[i] : i \in 1..Len(GrammarNames(args.table))}
                         \ {"|"}
        IN  IF Len(args.input) = 1 /\ args.input[1] \in names
            THEN result.ok /\ result.val = GrammarValue(args.table, args.input[1])
            ELSE /\ ~result.ok
                 /\ result.err = <<"got '">> \o args.input \o <<"', expected ">>
                                     \o GrammarNames(args.table)

\* C9 witness: `Italic` is no attribute name, and `italic` followed by more
\* text is none either
C9_Witness ==
    /\ pc = "done"
    /\ args.table = "AttributeName"
    /\ args.input \in {Str("Italic"), <<"italic", "x">>}
    /\ ~result.ok
    /\ Len(result.err) = 3 + 21

=============================================================================
